---------------------------- MODULE Spec2Model ----------------------------
(***************************************************************************)
(* Scryfall Compressor.py: load a JSON array of card records, drop the     *)
(* non-English, unwanted-layout and digital ones, project the rest to nine *)
(* fields, write them as CSV.                                              *)
(*                                                                         *)
(* Python values are tagged records, so that a value of any type can sit   *)
(* in any field of a card.  A projected record (a Python dict, which keeps *)
(* insertion order) is a sequence of <<key, value>> pairs.  An output file *)
(* is the sequence of its rows, a row being the sequence of its cells as a *)
(* CSV reader gives them back.                                             *)
(***************************************************************************)
EXTENDS Integers, Sequences, FiniteSets, TLC

VARIABLES
    inputFile,   \* INPUT_FILE on disk: [exists, valid, cards]; never written
    outputFile,  \* OUTPUT_FILE on disk: [exists, bom, rows]
    pc,          \* position of main()
    inOpen,      \* the handle json_file is open
    outOpen,     \* the handle csvfile is open
    all_cards,   \* main's all_cards
    i,           \* 1-based position of the for loop in all_cards
    filtered,    \* main's filtered
    w,           \* records of filtered that writerows has written
    err,         \* the exception that ended the run, "" when none
    run,         \* number of the current run of the script
    inOpens,     \* history: opens of INPUT_FILE in this run
    outOpens,    \* history: opens of OUTPUT_FILE in this run
    outAtStart,  \* history: OUTPUT_FILE as it was when this run started
    lastGood     \* history: <<OUTPUT_FILE>> as the last successful run left it

vars == <<inputFile, outputFile, pc, inOpen, outOpen, all_cards, i, filtered, w,
          err, run, inOpens, outOpens, outAtStart, lastGood>>

---------------------------------------------------------------------------
(* Bounds of the model *)

MaxCards == 3
MaxRuns == 2
MaxColors == 2
MaxCmc == 1

---------------------------------------------------------------------------
(* Python values *)

None == [t |-> "None"]
Str(s) == [t |-> "str", s |-> s]
Num(n) == [t |-> "num", n |-> n]
Bool(b) == [t |-> "bool", b |-> b]
List(xs) == [t |-> "list", xs |-> xs]
Dict(d) == [t |-> "dict", d |-> d]

\* bool(v)
Truthy(v) ==
    CASE v.t = "None" -> FALSE
      [] v.t = "bool" -> v.b
      [] v.t = "num"  -> v.n # 0
      [] v.t = "str"  -> v.s # ""
      [] v.t = "list" -> Len(v.xs) > 0
      [] v.t = "dict" -> DOMAIN v.d # {}

\* v has a .get method
HasGet(v) == v.t = "dict"

\* k in v, for a dict v
Contains(v, k) == k \in DOMAIN v.d

\* v.get(k, dflt), for a dict v
GetOr(v, k, dflt) == IF Contains(v, k) THEN v.d[k] ELSE dflt

\* v.get(k), for a dict v
Get(v, k) == GetOr(v, k, None)

\* v == s, for a string literal s
EqStr(v, s) == v.t = "str" /\ v.s = s

\* hash(v) raises TypeError
Unhashable(v) == v.t \in {"list", "dict"}


\* iter(v) succeeds.  Only lists, numbers, booleans and None are drawn for
\* `colors`; a str or dict, which Python also iterates, is not.
Iterable(v) == v.t = "list"

\* sep.join(xs) raises TypeError: xs holds an item that is not a str
JoinRaises(xs) == \E j \in 1..Len(xs) : xs[j].t # "str"

\* sep.join(xs), for a sequence xs of str values
RECURSIVE Join(_, _)
Join(sep, xs) ==
    IF Len(xs) = 0 THEN ""
    ELSE IF Len(xs) = 1 THEN xs[1].s
    ELSE xs[1].s \o sep \o Join(sep, Tail(xs))

---------------------------------------------------------------------------
(* Module constants *)

SKIP_LAYOUTS == {"token", "emblem", "art_series", "augment", "host", "double_faced_token"}

CSV_HEADERS == <<"name", "set", "rarity", "cmc", "colors", "type_line", "usd", "usd_foil", "image">>

---------------------------------------------------------------------------
(* extract_card *)

\* what a call gives: the value it returns, or the exception it raises
Return(v) == [raised |-> "", value |-> v]
Raise(e) == [raised |-> e, value |-> <<>>]

\* card.get('colors') or []
ColorsArg(card) ==
    LET c == Get(card, "colors") IN IF Truthy(c) THEN c ELSE List(<<>>)

\* ', '.join(card.get('colors') or []) raises TypeError
ColorsRaises(card) ==
    \/ ~Iterable(ColorsArg(card))
    \/ JoinRaises(ColorsArg(card).xs)

\* the join written with ',' for ', '
ColorsValueNoSpace(card) == Str(Join(",", ColorsArg(card).xs))

\* ', '.join(card.get('colors') or [])
ColorsValue(card) == Str(Join(", ", ColorsArg(card).xs))

\* card.get('prices', {})
PricesArg(card) == GetOr(card, "prices", Dict(<<>>))

\* card.get('prices', {}).get(key) raises AttributeError
PricesRaises(card) == ~HasGet(PricesArg(card))

\* both price entries written with the key 'usd'
PriceValueUsd(card, key) == Get(PricesArg(card), "usd")

\* card.get('prices', {}).get(key)
PriceValue(card, key) == Get(PricesArg(card), key)

\* card.get('image_uris', {})
ImageArg(card) == GetOr(card, "image_uris", Dict(<<>>))

\* card.get('image_uris', {}).get('normal') if 'image_uris' in card else None
\* raises AttributeError
ImageRaises(card) == Contains(card, "image_uris") /\ ~HasGet(ImageArg(card))

\* the image entry written with the key 'small'
ImageValueSmall(card) ==
    IF Contains(card, "image_uris") THEN Get(ImageArg(card), "small") ELSE None

\* card.get('image_uris', {}).get('normal') if 'image_uris' in card else None
ImageValue(card) ==
    IF Contains(card, "image_uris") THEN Get(ImageArg(card), "normal") ELSE None

\* extract_card with the 'image' entry given only to a card that has
\* 'image_uris'
extract_card_image_if_present(card) ==
    IF ColorsRaises(card) THEN Raise("TypeError")
    ELSE IF PricesRaises(card) THEN Raise("AttributeError")
    ELSE IF ImageRaises(card) THEN Raise("AttributeError")
    ELSE Return(<< <<"name", Get(card, "name")>>,
                   <<"set", Get(card, "set")>>,
                   <<"rarity", Get(card, "rarity")>>,
                   <<"cmc", Get(card, "cmc")>>,
                   <<"colors", ColorsValue(card)>>,
                   <<"type_line", Get(card, "type_line")>>,
                   <<"usd", PriceValue(card, "usd")>>,
                   <<"usd_foil", PriceValue(card, "usd_foil")>> >>
                \o (IF Contains(card, "image_uris")
                    THEN << <<"image", ImageValue(card)>> >> ELSE <<>>))

\* The dict display is evaluated entry by entry, in order: the first entry
\* that raises ends the call.
extract_card(card) ==
    IF ColorsRaises(card) THEN Raise("TypeError")
    ELSE IF PricesRaises(card) THEN Raise("AttributeError")
    ELSE IF ImageRaises(card) THEN Raise("AttributeError")
    ELSE Return(<< <<"name", Get(card, "name")>>,
                   <<"set", Get(card, "set")>>,
                   <<"rarity", Get(card, "rarity")>>,
                   <<"cmc", Get(card, "cmc")>>,
                   <<"colors", ColorsValue(card)>>,
                   <<"type_line", Get(card, "type_line")>>,
                   <<"usd", PriceValue(card, "usd")>>,
                   <<"usd_foil", PriceValue(card, "usd_foil")>>,
                   <<"image", ImageValue(card)>> >>)

\* the keys of a projected record, in insertion order
Keys(rec) == [j \in 1..Len(rec) |-> rec[j][1]]

\* rec[key], for a key of the projected record
Field(rec, key) == rec[CHOOSE j \in 1..Len(rec) : rec[j][1] = key][2]

---------------------------------------------------------------------------
(* The inclusion test of main's loop *)

\* card.get('lang') != 'en'
LangSkips(card) == ~EqStr(Get(card, "lang"), "en")

\* card.get('layout') in SKIP_LAYOUTS raises TypeError
LayoutRaises(card) == Unhashable(Get(card, "layout"))

\* card.get('layout') in SKIP_LAYOUTS
LayoutSkips(card) ==
    LET l == Get(card, "layout") IN l.t = "str" /\ l.s \in SKIP_LAYOUTS

\* the test written `card.get('digital') is True`
DigitalSkipsIsTrue(card) ==
    LET d == Get(card, "digital") IN d.t = "bool" /\ d.b

\* card.get('digital')
DigitalSkips(card) == Truthy(Get(card, "digital"))

\* One pass of the loop body over card: "skip" (a continue), "append", or
\* the exception that leaves the loop.
LoopBody(card) ==
    IF LangSkips(card) THEN "skip"
    ELSE IF LayoutRaises(card) THEN "TypeError"
    ELSE IF LayoutSkips(card) THEN "skip"
    ELSE IF DigitalSkips(card) THEN "skip"
    ELSE IF extract_card(card).raised # "" THEN extract_card(card).raised
    ELSE "append"

---------------------------------------------------------------------------
(* csv.DictWriter over OUTPUT_FILE *)

\* rec.get(key, dflt), for a projected record
RecGetOr(rec, key, dflt) ==
    IF \E j \in 1..Len(rec) : rec[j][1] = key THEN Field(rec, key) ELSE dflt

\* the cell text taken as str(v) for every v, None included
CsvCellStr(v) ==
    CASE v.t = "None" -> "None"
      [] v.t = "str"  -> v.s
      [] v.t = "num"  -> ToString(v.n)
      [] v.t = "bool" -> IF v.b THEN "True" ELSE "False"

\* the text the csv writer puts in a cell: nothing for None, a str as it
\* is, str(v) for a number or a boolean
CsvCell(v) ==
    CASE v.t = "None" -> ""
      [] v.t = "str"  -> v.s
      [] v.t = "num"  -> ToString(v.n)
      [] v.t = "bool" -> IF v.b THEN "True" ELSE "False"

\* the cells of the row DictWriter(fieldnames=CSV_HEADERS) writes for rec
RowCells(rec) ==
    [j \in 1..Len(CSV_HEADERS) |-> CsvCell(RecGetOr(rec, CSV_HEADERS[j], Str("")))]

\* the cells of the row writeheader() writes
HeaderCells == CSV_HEADERS

\* the file opened with mode 'a': created, or kept as it is
OpenedForAppend(f) == [exists |-> TRUE, bom |-> f.bom, rows |-> f.rows]

\* open(OUTPUT_FILE, 'w', ...) on file f: created or truncated
OpenedForWrite(f) == [exists |-> TRUE, bom |-> FALSE, rows |-> <<>>]

\* a write of one row to f; the utf-8-sig encoder puts the byte-order mark
\* before the first text written
WithRow(f, cells) == [exists |-> TRUE, bom |-> TRUE, rows |-> Append(f.rows, cells)]

---------------------------------------------------------------------------
(* The inputs the model draws *)

Absent == [t |-> "absent"]

\* the card whose fields are the entries of f that are not Absent
CardOf(f) == Dict([k \in {k \in DOMAIN f : f[k] # Absent} |-> f[k]])

\* the lists of colour codes of at most MaxColors items
ColorLists ==
    UNION {[1..n -> {Str("R"), Str("G")}] : n \in 0..MaxColors}

ColorsOpts ==
    {Absent, None, Num(0), Num(5), List(<<Num(1)>>)} \cup {List(xs) : xs \in ColorLists}

PricesOpts ==
    {Absent, None, Str("n/a"),
     Dict(<<>>),
     Dict([usd |-> Str("1.50")]),
     Dict([usd_foil |-> Str("3.00")]),
     Dict([usd |-> Str("1.50"), usd_foil |-> Str("3.00")]),
     Dict([usd |-> None, usd_foil |-> Str("3.00")])}

ImageOpts ==
    {Absent, None, Str("http://x/y.jpg"),
     Dict(<<>>),
     Dict([normal |-> Str("http://x/y.jpg")]),
     Dict([small |-> Str("http://x/s.jpg")])}

\* cards that pass the inclusion test, over every combination of the
\* fields extract_card reads
ProjectionCards ==
    {CardOf(f) : f \in
        [lang : {Str("en")}, layout : {Str("normal")}, digital : {Bool(FALSE)},
         name : {Absent, None, Str("Bolt")},
         set : {Absent, Str("m21")},
         rarity : {Absent, Str("common")},
         cmc : {Absent} \cup {Num(n) : n \in 0..MaxCmc},
         type_line : {Absent, Str("Instant")},
         colors : ColorsOpts, prices : PricesOpts, image_uris : ImageOpts]}

\* a card with every field, which passes the inclusion test
FullFields ==
    [lang |-> Str("en"), layout |-> Str("normal"), digital |-> Bool(FALSE),
     name |-> Str("Bolt"), set |-> Str("m21"), rarity |-> Str("common"),
     cmc |-> Num(1), type_line |-> Str("Instant"),
     colors |-> List(<<Str("R"), Str("G")>>),
     prices |-> Dict([usd |-> Str("1.50"), usd_foil |-> Str("3.00")]),
     image_uris |-> Dict([normal |-> Str("http://x/y.jpg")])]

\* cards over every combination of the fields the inclusion test reads
FilterCards ==
    {CardOf([FullFields EXCEPT !.lang = la, !.layout = ly, !.digital = dg]) :
        la \in {Absent, None, Str("en"), Str("ja")},
        ly \in {Absent, None, Str("normal"), List(<<Str("token")>>)}
               \cup {Str(l) : l \in SKIP_LAYOUTS},
        dg \in {Absent, None, Bool(FALSE), Bool(TRUE), Num(1)}}

ExtractCards == ProjectionCards \cup FilterCards

\* the records of the documents the pipeline is run on
PipelineCards ==
    {CardOf(FullFields),
     CardOf([FullFields EXCEPT !.lang = Str("ja"), !.name = Str("Inazuma")]),
     CardOf([FullFields EXCEPT !.lang = Absent, !.name = Str("Nameless")]),
     CardOf([FullFields EXCEPT !.layout = Str("token"), !.name = Str("Goblin")]),
     CardOf([FullFields EXCEPT !.digital = Bool(TRUE), !.name = Str("Arena")]),
     CardOf([FullFields EXCEPT !.name = Str("Plains"), !.cmc = Num(0),
                               !.colors = List(<<>>), !.layout = Absent,
                               !.digital = Absent, !.rarity = Absent,
                               !.prices = Absent, !.image_uris = Absent]),
     CardOf([FullFields EXCEPT !.name = Str("Relic"), !.colors = List(<<Str("G")>>),
                               !.prices = Dict([usd |-> None, usd_foil |-> Str("3.00")]),
                               !.image_uris = Dict(<<>>)]),
     CardOf([FullFields EXCEPT !.name = Str("Oddity"), !.prices = None])}

\* the documents: sequences of at most MaxCards records
Documents == UNION {[1..n -> PipelineCards] : n \in 0..MaxCards}

NoFile == [exists |-> FALSE, bom |-> FALSE, rows |-> <<>>]

\* what OUTPUT_FILE may hold before the first run
StaleFiles ==
    {NoFile,
     [exists |-> TRUE, bom |-> TRUE,
      rows |-> <<CSV_HEADERS, <<"Old", "lea", "rare", "3", "U", "Sorcery", "9.99", "", "">> >>]}

InputFiles ==
    {[exists |-> FALSE, valid |-> FALSE, cards |-> <<>>],
     [exists |-> TRUE, valid |-> FALSE, cards |-> <<>>]}
    \cup {[exists |-> TRUE, valid |-> TRUE, cards |-> d] : d \in Documents}

---------------------------------------------------------------------------
(* main *)

Init ==
    /\ inputFile \in InputFiles
    /\ outputFile \in StaleFiles
    /\ pc = "start"
    /\ inOpen = FALSE
    /\ outOpen = FALSE
    /\ all_cards = <<>>
    /\ i = 1
    /\ filtered = <<>>
    /\ w = 0
    /\ err = ""
    /\ run = 1
    /\ inOpens = 0
    /\ outOpens = 0
    /\ outAtStart = outputFile
    /\ lastGood = <<>>

\* open(INPUT_FILE, 'r', encoding='utf-8')
OpenInput ==
    /\ pc = "start"
    /\ inputFile.exists
    /\ inOpen' = TRUE
    /\ inOpens' = inOpens + 1
    /\ pc' = "load"
    /\ UNCHANGED <<inputFile, outputFile, outOpen, all_cards, i, filtered, w, err,
                   run, outOpens, outAtStart, lastGood>>

\* open(INPUT_FILE, ...) raises: the run ends
OpenInputFails ==
    /\ pc = "start"
    /\ ~inputFile.exists
    /\ pc' = "failed"
    /\ err' = "FileNotFoundError"
    /\ UNCHANGED <<inputFile, outputFile, inOpen, outOpen, all_cards, i, filtered, w,
                   run, inOpens, outOpens, outAtStart, lastGood>>

\* the load written without the with block: json_file is left open
LoadJsonLeavesOpen ==
    /\ pc = "load"
    /\ inputFile.valid
    /\ all_cards' = inputFile.cards
    /\ filtered' = <<>>
    /\ i' = 1
    /\ pc' = "filter"
    /\ UNCHANGED <<inputFile, outputFile, inOpen, outOpen, w, err, run, inOpens,
                   outOpens, outAtStart, lastGood>>

\* all_cards = json.load(json_file); the with block closes json_file;
\* filtered = []; the for loop starts
LoadJson ==
    /\ pc = "load"
    /\ inputFile.valid
    /\ all_cards' = inputFile.cards
    /\ inOpen' = FALSE
    /\ filtered' = <<>>
    /\ i' = 1
    /\ pc' = "filter"
    /\ UNCHANGED <<inputFile, outputFile, outOpen, w, err, run, inOpens, outOpens,
                   outAtStart, lastGood>>

\* json.load raises; the with block closes json_file; the run ends
LoadJsonFails ==
    /\ pc = "load"
    /\ ~inputFile.valid
    /\ inOpen' = FALSE
    /\ pc' = "failed"
    /\ err' = "JSONDecodeError"
    /\ UNCHANGED <<inputFile, outputFile, outOpen, all_cards, i, filtered, w, run,
                   inOpens, outOpens, outAtStart, lastGood>>

\* the append written filtered.insert(0, rec)
EmitFirst(recs, rec) == <<rec>> \o recs

\* filtered.append(rec)
Emit(recs, rec) == Append(recs, rec)

\* one pass of the for loop
FilterStep ==
    /\ pc = "filter"
    /\ i <= Len(all_cards)
    /\ LET card == all_cards[i]
           out == LoopBody(card)
       IN  /\ filtered' = IF out = "append"
                          THEN Emit(filtered, extract_card(card).value)
                          ELSE filtered
           /\ i' = IF out \in {"append", "skip"} THEN i + 1 ELSE i
           /\ pc' = IF out \in {"append", "skip"} THEN "filter" ELSE "failed"
           /\ err' = IF out \in {"append", "skip"} THEN err ELSE out
    /\ UNCHANGED <<inputFile, outputFile, inOpen, outOpen, all_cards, w, run,
                   inOpens, outOpens, outAtStart, lastGood>>

\* the loop is over; open(OUTPUT_FILE, 'w', newline='', encoding='utf-8-sig')
\* and csv.DictWriter(csvfile, fieldnames=CSV_HEADERS)
OpenOutput ==
    /\ pc = "filter"
    /\ i > Len(all_cards)
    /\ outputFile' = OpenedForWrite(outputFile)
    /\ outOpen' = TRUE
    /\ outOpens' = outOpens + 1
    /\ pc' = "writeheader"
    /\ UNCHANGED <<inputFile, inOpen, all_cards, i, filtered, w, err, run, inOpens,
                   outAtStart, lastGood>>

\* the loop is over; open(OUTPUT_FILE, 'w', ...) raises (the path is not
\* writable): the run ends
OpenOutputFails ==
    /\ pc = "filter"
    /\ i > Len(all_cards)
    /\ pc' = "failed"
    /\ err' = "OSError"
    /\ UNCHANGED <<inputFile, outputFile, inOpen, outOpen, all_cards, i, filtered, w,
                   run, inOpens, outOpens, outAtStart, lastGood>>

\* writer.writeheader()
WriteHeader ==
    /\ pc = "writeheader"
    /\ outputFile' = WithRow(outputFile, HeaderCells)
    /\ pc' = "writerows"
    /\ UNCHANGED <<inputFile, inOpen, outOpen, all_cards, i, filtered, w, err, run,
                   inOpens, outOpens, outAtStart, lastGood>>

\* writer.writerows(filtered), one row of it: the next record of filtered
WriteRow ==
    /\ pc = "writerows"
    /\ w < Len(filtered)
    /\ outputFile' = WithRow(outputFile, RowCells(filtered[w + 1]))
    /\ w' = w + 1
    /\ UNCHANGED <<inputFile, pc, inOpen, outOpen, all_cards, i, filtered, err,
                   run, inOpens, outOpens, outAtStart, lastGood>>

\* writerows is over; the with block closes csvfile; main returns
CloseOutput ==
    /\ pc = "writerows"
    /\ w >= Len(filtered)
    /\ outOpen' = FALSE
    /\ pc' = "done"
    /\ UNCHANGED <<inputFile, outputFile, inOpen, all_cards, i, filtered, w, err,
                   run, inOpens, outOpens, outAtStart, lastGood>>

\* a write raises (the disk is full, say); the with block closes csvfile;
\* the run ends with the file as the writes so far left it
WriteFails ==
    /\ pc \in {"writeheader", "writerows"}
    /\ outOpen' = FALSE
    /\ pc' = "failed"
    /\ err' = "OSError"
    /\ UNCHANGED <<inputFile, outputFile, inOpen, all_cards, i, filtered, w, run,
                   inOpens, outOpens, outAtStart, lastGood>>

\* the script is run again, on the same input file
Rerun ==
    /\ pc \in {"done", "failed"}
    /\ run < MaxRuns
    /\ run' = run + 1
    /\ lastGood' = IF pc = "done" THEN <<outputFile>> ELSE lastGood
    /\ outAtStart' = outputFile
    /\ pc' = "start"
    /\ all_cards' = <<>>
    /\ i' = 1
    /\ filtered' = <<>>
    /\ w' = 0
    /\ err' = ""
    /\ inOpens' = 0
    /\ outOpens' = 0
    /\ UNCHANGED <<inputFile, outputFile, inOpen, outOpen>>

Next ==
    \/ OpenInput
    \/ OpenInputFails
    \/ LoadJson
    \/ LoadJsonFails
    \/ FilterStep
    \/ OpenOutput
    \/ OpenOutputFails
    \/ WriteHeader
    \/ WriteRow
    \/ CloseOutput
    \/ WriteFails
    \/ Rerun

Spec == Init /\ [][Next]_vars

---------------------------------------------------------------------------
(* The loop body on its own: main just after it loaded a document of one   *)
(* record, that record drawn from every combination of field values.       *)

InitExtract ==
    /\ inputFile \in {[exists |-> TRUE, valid |-> TRUE, cards |-> <<c>>] : c \in ExtractCards}
    /\ outputFile = NoFile
    /\ pc = "filter"
    /\ inOpen = FALSE
    /\ outOpen = FALSE
    /\ all_cards = inputFile.cards
    /\ i = 1
    /\ filtered = <<>>
    /\ w = 0
    /\ err = ""
    /\ run = 1
    /\ inOpens = 1
    /\ outOpens = 0
    /\ outAtStart = outputFile
    /\ lastGood = <<>>

NextExtract == FilterStep

SpecExtract == InitExtract /\ [][NextExtract]_vars

---------------------------------------------------------------------------
(* Properties *)

\* the record's lang is not exactly "en", or is absent
LangNotEn(card) ==
    ~(Contains(card, "lang") /\ card.d["lang"].t = "str" /\ card.d["lang"].s = "en")

\* the record's layout is one of the six excluded layouts
LayoutExcluded(card) ==
    /\ Contains(card, "layout")
    /\ card.d["layout"].t = "str"
    /\ card.d["layout"].s \in {"token", "emblem", "art_series", "augment", "host",
                               "double_faced_token"}

\* the record's digital field is truthy
DigitalTruthy(card) == Contains(card, "digital") /\ Truthy(card.d["digital"])

\* the record fails the inclusion test
Excluded(card) == LangNotEn(card) \/ LayoutExcluded(card) \/ DigitalTruthy(card)

\* C1: a pass of the filter loop over a record whose lang is not exactly
\* "en" (or is absent), or whose layout is in the exclusion set, or whose
\* digital field is truthy, appends nothing to filtered: each of the three
\* conditions is enough, whatever the other two fields hold.
C1_ExcludedRecordEmitsNothing ==
    [][(pc = "filter" /\ i <= Len(all_cards) /\ Excluded(all_cards[i]))
          => filtered' = filtered]_vars

\* the loop has passed over a record that only its digital field excludes,
\* and over nothing else
C1_Witness ==
    /\ pc = "filter"
    /\ i = 2
    /\ ~LangNotEn(all_cards[1])
    /\ ~LayoutExcluded(all_cards[1])
    /\ DigitalTruthy(all_cards[1])
    /\ filtered = <<>>

\* the projections of the records of cards that pass the inclusion test,
\* in the order of cards
RECURSIVE ProjectionOfPassing(_)
ProjectionOfPassing(cards) ==
    IF Len(cards) = 0 THEN <<>>
    ELSE LET front == ProjectionOfPassing(SubSeq(cards, 1, Len(cards) - 1))
             last == cards[Len(cards)]
         IN  IF Excluded(last) THEN front
             ELSE front \o <<extract_card(last).value>>

\* C2: filtered is the projection of the passing subsequence of the
\* records the loop has passed over, one projected record per passing
\* record, in input order; once the loop is over that is the whole input.
C2_FilteredIsProjectionOfPassing ==
    /\ filtered = ProjectionOfPassing(SubSeq(all_cards, 1, i - 1))
    /\ pc \in {"writeheader", "writerows", "done"}
          => /\ i = Len(all_cards) + 1
             /\ all_cards = inputFile.cards
             /\ filtered = ProjectionOfPassing(inputFile.cards)

\* a finished run over three records, the middle one excluded, the two
\* others passing and distinct
C2_Witness ==
    /\ pc = "done"
    /\ Len(all_cards) = 3
    /\ ~Excluded(all_cards[1])
    /\ Excluded(all_cards[2])
    /\ ~Excluded(all_cards[3])
    /\ all_cards[1] # all_cards[3]
    /\ Len(filtered) = 2
    /\ filtered[1] # filtered[2]

\* C3: every projected record has exactly the nine keys name, set, rarity,
\* cmc, colors, type_line, usd, usd_foil, image, in that order, which is
\* CSV_HEADERS, whichever source fields the record has.
C3_NineKeysInOrder ==
    \A j \in 1..Len(filtered) :
        /\ Keys(filtered[j]) = <<"name", "set", "rarity", "cmc", "colors",
                                 "type_line", "usd", "usd_foil", "image">>
        /\ Keys(filtered[j]) = CSV_HEADERS

\* the projection of a record that has none of the source fields
C3_Witness ==
    /\ Len(filtered) = 1
    /\ DOMAIN all_cards[1].d = {"lang", "layout", "digital"}

\* the items of xs joined with comma-space, built from the last item back
RECURSIVE CommaSpaced(_)
CommaSpaced(xs) ==
    IF Len(xs) = 1 THEN xs[1].s
    ELSE CommaSpaced(SubSeq(xs, 1, Len(xs) - 1)) \o ", " \o xs[Len(xs)].s

\* the source value of field key copied as it is, None when absent
Verbatim(card, key) == IF key \in DOMAIN card.d THEN card.d[key] ELSE None

\* the record at position j of all_cards is the one filtered[j] was made
\* from: so it is in a run over a single record
SingleRecord == Len(all_cards) = 1 /\ Len(filtered) = 1

\* C4: the projected colors is the source colors list joined with
\* comma-space in its order when the list is present and non-empty, the
\* empty string (not None) when colors is absent or empty, and a string in
\* every case; name, set, rarity, cmc and type_line are the source value as
\* it is, or None when absent.
C4_ColorsJoinedOthersVerbatim ==
    SingleRecord =>
        LET card == all_cards[1]
            rec == filtered[1]
        IN  /\ Field(rec, "colors").t = "str"
            /\ ("colors" \in DOMAIN card.d /\ card.d["colors"].t = "list"
                  /\ Len(card.d["colors"].xs) > 0)
                  => Field(rec, "colors") = Str(CommaSpaced(card.d["colors"].xs))
            /\ ("colors" \notin DOMAIN card.d
                  \/ (card.d["colors"].t = "list" /\ Len(card.d["colors"].xs) = 0))
                  => Field(rec, "colors") = Str("")
            /\ \A key \in {"name", "set", "rarity", "cmc", "type_line"} :
                  Field(rec, key) = Verbatim(card, key)

\* the projection of a record of two colours that has no name
C4_Witness ==
    /\ SingleRecord
    /\ "colors" \in DOMAIN all_cards[1].d
    /\ all_cards[1].d["colors"] = List(<<Str("G"), Str("R")>>)
    /\ Field(filtered[1], "colors") = Str("G, R")
    /\ "name" \notin DOMAIN all_cards[1].d
    /\ Field(filtered[1], "name") = None

\* C5: usd and usd_foil are the entries of the source prices mapping when
\* prices is present, each None when the mapping lacks that entry (the other
\* still the stored value), and both None when prices is absent.
C5_PricesFromNestedMapping ==
    SingleRecord =>
        LET card == all_cards[1]
            rec == filtered[1]
        IN  /\ "prices" \notin DOMAIN card.d
                  => Field(rec, "usd") = None /\ Field(rec, "usd_foil") = None
            /\ "prices" \in DOMAIN card.d
                  => \A key \in {"usd", "usd_foil"} :
                        Field(rec, key) = IF key \in DOMAIN card.d["prices"].d
                                          THEN card.d["prices"].d[key]
                                          ELSE None

\* the projection of a record whose prices holds usd_foil and no usd
C5_Witness ==
    /\ SingleRecord
    /\ "prices" \in DOMAIN all_cards[1].d
    /\ DOMAIN all_cards[1].d["prices"].d = {"usd_foil"}
    /\ Field(filtered[1], "usd") = None
    /\ Field(filtered[1], "usd_foil") = Str("3.00")

\* the chained default-mapping lookup, as written for prices:
\* card.get('image_uris', {}).get('normal')
ChainedImageRaises(card) == GetOr(card, "image_uris", Dict(<<>>)).t # "dict"
ChainedImage(card) ==
    LET m == GetOr(card, "image_uris", Dict(<<>>))
    IN  IF "normal" \in DOMAIN m.d THEN m.d["normal"] ELSE None

\* C6: image is the normal entry of image_uris when the record has
\* image_uris (None when the mapping has no normal entry) and None when it
\* has none; the containment check gives what the chained default-mapping
\* lookup gives, for every record: they raise on the same records and
\* return the same value on the others.
C6_ImageFromImageUris ==
    /\ SingleRecord =>
        LET card == all_cards[1]
            rec == filtered[1]
        IN  /\ "image_uris" \notin DOMAIN card.d => Field(rec, "image") = None
            /\ "image_uris" \in DOMAIN card.d
                  => Field(rec, "image") =
                        IF "normal" \in DOMAIN card.d["image_uris"].d
                        THEN card.d["image_uris"].d["normal"] ELSE None
            /\ Field(rec, "image") = ChainedImage(card)
    /\ \A j \in 1..Len(all_cards) :
          /\ ImageRaises(all_cards[j]) = ChainedImageRaises(all_cards[j])
          /\ ~ImageRaises(all_cards[j])
                => ImageValue(all_cards[j]) = ChainedImage(all_cards[j])

\* the projection of a record whose image_uris has a normal entry
C6_Witness ==
    /\ SingleRecord
    /\ "image_uris" \in DOMAIN all_cards[1].d
    /\ Field(filtered[1], "image") = Str("http://x/y.jpg")

\* C7: no record makes the loop fail: whatever fields are absent or hold
\* malformed values, the inclusion test and extract_card raise nothing.
C7_NoRecordRaises ==
    ~(pc = "failed" /\ err \in {"TypeError", "AttributeError"})

\* the text of an output cell for a projected value: empty for None
CellText(v) ==
    IF v = None THEN ""
    ELSE IF v.t = "str" THEN v.s
    ELSE ToString(v.n)

\* the number of records of cards that pass the inclusion test
RECURSIVE PassingCount(_)
PassingCount(cards) ==
    IF Len(cards) = 0 THEN 0
    ELSE (IF Excluded(Head(cards)) THEN 0 ELSE 1) + PassingCount(Tail(cards))

\* C8: after a successful run the output file is the header row, the nine
\* column names in CSV_HEADERS order, then one row per projected record in
\* the order of filtered, whose cell in each column is the text of the
\* record's value under that column's name, empty (not "None") for None;
\* the number of data rows is the number of records that passed the filter.
C8_OutputIsHeaderPlusRows ==
    pc = "done" =>
        /\ outputFile.exists
        /\ Len(outputFile.rows) = 1 + Len(filtered)
        /\ Len(filtered) = PassingCount(inputFile.cards)
        /\ outputFile.rows[1] = <<"name", "set", "rarity", "cmc", "colors",
                                  "type_line", "usd", "usd_foil", "image">>
        /\ outputFile.rows[1] = CSV_HEADERS
        /\ \A j \in 1..Len(filtered) :
              /\ Len(outputFile.rows[j + 1]) = Len(CSV_HEADERS)
              /\ \A k \in 1..Len(CSV_HEADERS) :
                    /\ outputFile.rows[j + 1][k] = CellText(Field(filtered[j], CSV_HEADERS[k]))
                    /\ Field(filtered[j], CSV_HEADERS[k]) = None
                          => outputFile.rows[j + 1][k] = ""

\* a finished run that wrote two data rows, one of them with a None value
C8_Witness ==
    /\ pc = "done"
    /\ Len(filtered) = 2
    /\ Len(outputFile.rows) = 3
    /\ Field(filtered[2], "usd") = None
    /\ outputFile.rows[3][7] = ""
    /\ outputFile.rows[2][7] = "1.50"

\* the file a run over document cards leaves
ExpectedOutput(cards) ==
    [exists |-> TRUE, bom |-> TRUE,
     rows |-> <<CSV_HEADERS>> \o
              [j \in 1..Len(ProjectionOfPassing(cards)) |->
                  [k \in 1..Len(CSV_HEADERS) |->
                      CellText(Field(ProjectionOfPassing(cards)[j], CSV_HEADERS[k]))]]]

\* C9: a run that succeeds after an earlier successful run on the same
\* input leaves the output file as that earlier run left it; what a
\* successful run leaves depends on the input alone, whatever the output
\* file held before (nothing, an old table, or what a failed run left).
C9_RerunLeavesSameOutput ==
    pc = "done" =>
        /\ lastGood # <<>> => outputFile = lastGood[1]
        /\ outputFile = ExpectedOutput(inputFile.cards)

\* a second run finished after a first successful one, having written a
\* data row, where an old table was there before the first run
C9_Witness ==
    /\ pc = "done"
    /\ run = 2
    /\ lastGood # <<>>
    /\ Len(outputFile.rows) = 2
    /\ outputFile.rows[2][1] # "Old"

\* C10: in every run the stages come in the order load, filter, write, and
\* each file is opened once: the input file is closed before the loop
\* starts, the output file is opened (and truncated) only once the whole
\* input is parsed and every record filtered, the two are never open
\* together; a run ended by a load failure leaves the output file as it
\* found it; a run that has ended, in success or failure, has no file open.
C10_StagesInOrderFilesReleased ==
    /\ inOpens <= 1 /\ outOpens <= 1
    /\ ~(inOpen /\ outOpen)
    /\ inOpen <=> pc = "load"
    /\ outOpen <=> pc \in {"writeheader", "writerows"}
    /\ pc \in {"start", "load"} => inOpens = (IF pc = "load" THEN 1 ELSE 0) /\ outOpens = 0
    /\ pc = "filter" => inOpens = 1 /\ outOpens = 0
    /\ outOpens = 0 => outputFile = outAtStart
    /\ outOpens = 1 =>
          /\ inOpens = 1
          /\ all_cards = inputFile.cards
          /\ i = Len(all_cards) + 1
    /\ (pc = "failed" /\ err \in {"FileNotFoundError", "JSONDecodeError"})
          => outputFile = outAtStart /\ outOpens = 0
    /\ pc \in {"done", "failed"} => ~inOpen /\ ~outOpen
    /\ pc = "done" => inOpens = 1 /\ outOpens = 1

\* a run ended by a write failure that left the output file, which held an
\* old table, truncated and short of the rows it was to hold
C10_Witness ==
    /\ pc = "failed"
    /\ err = "OSError"
    /\ outOpens = 1
    /\ ~inOpen /\ ~outOpen
    /\ outAtStart.exists
    /\ outputFile # outAtStart
    /\ Len(outputFile.rows) < 1 + Len(filtered)

=============================================================================
